---- MODULE Spec2Model ----
(***************************************************************************)
(* The bolt persistence store of csymapp/mqtt (package bolt): a Store      *)
(* wraps a storm.DB over a bbolt file.  The model keeps the file's four    *)
(* buckets (Subscription, Client, Message, ServerInfo), each Store's db    *)
(* pointer, the exclusive file lock, and the result of the last call.      *)
(***************************************************************************)
EXTENDS Naturals, Sequences, FiniteSets, TLC

(***************************************************************************)
(* Bounds of the model and constants of the program.                       *)
(***************************************************************************)
\* Created timestamps range over 0..MaxCreated, thresholds over
\* 0..MaxCreated + 1.
MaxCreated == 1

\* defaultPath, and defaultTimeout in milliseconds.
defaultPath == "mochi.db"
defaultTimeout == 250

\* The Store handles (two processes, or two Store values, on the same path).
Handles == {1, 2}

\* The goroutines that share Store 1.
NumGoroutines == 2
Goroutines == 1..NumGoroutines

\* Storage keys; KeyOrder is bbolt's bytewise key order over them.
IDs == {"a", "b"}
KeyOrder == <<"a", "b", "srv">>

\* The kind discriminators of package persistence.
KSubscription == "sub"
KServerInfo == "srv"
KRetained == "ret"
KInflight == "ifm"
KClient == "cl"

\* Errors: nil, the store's own, bbolt's and storm's.
NoErr == "nil"
ErrDBNotOpen == "boltdb not opened"
ErrDatabaseNotOpen == "database not open"
ErrTimeout == "timeout"
ErrNotFound == "not found"
ErrZeroID == "id field must not be a zero value"

\* A []byte payload is "nil", "empty" (of length 0 but not nil) or "x" (holding
\* bytes).  The values callers pass to the Write functions: inflight messages
\* with a creation time, retained messages (which carry none), each with a
\* payload that is empty or not, and one message without an ID.
MessageValues ==
  [ID : IDs, T : {KInflight}, Created : 0..MaxCreated, Payload : {"empty", "x"}]
  \cup [ID : IDs, T : {KRetained}, Created : {0}, Payload : {"empty", "x"}]
  \cup {[ID |-> "", T |-> KInflight, Created |-> 0, Payload |-> "x"]}
ClientValues == [ID : {"a"}, T : {KClient}]
SubscriptionValues == [ID : {"a"}, T : {KSubscription}]
ServerInfoValues == [ID : {KServerInfo}, Version : {1}]

\* The zero value of persistence.ServerInfo.
ZeroServerInfo == [ID |-> "", Version |-> 0]

VARIABLES
  sub,      \* bucket "Subscription" of the file: ID -> stored record
  cl,       \* bucket "Client"
  msg,      \* bucket "Message" (inflight and retained messages together)
  srv,      \* bucket "ServerInfo"
  path,     \* path[h]: s.path of Store h
  db,       \* db[h]: s.db of Store h: "nil", an "open" DB, or a "closed" DB
  leaked,   \* the paths locked by an open DB no Store points to any more
  timeout,  \* timeout[h]: s.opts.Timeout of Store h (0: wait indefinitely)
  inflightTTL, \* inflightTTL[h]: s.inflightTTL of Store h
  pc,       \* pc[h]: "none" (no Store), "idle", "blocked" inside Open, "panic"
  ret,      \* the last call: its name, Store, argument (for Close: the db
            \* pointer it was called on), error and result
  gor,      \* gor[g]: goroutine g of the process of Store 1: [pc, m], m the
            \* locals of the call it is in
  issued    \* the records a goroutine has called a Write function with

file == <<sub, cl, msg, srv>>
conc == <<gor, issued>>
cfg == <<path, timeout, inflightTTL>>
vars == <<sub, cl, msg, srv, path, db, leaked, timeout, inflightTTL, pc, ret,
          gor, issued>>

(***************************************************************************)
(* bbolt buckets and the gob codec.                                        *)
(***************************************************************************)
EmptyBucket == [k \in {} |-> k]

\* Put that keeps the value a key already has (an insert, not an upsert).
PutIfAbsent(b, id, r) ==
  [k \in (DOMAIN b) \cup {id} |-> IF k \in DOMAIN b THEN b[k] ELSE r]

Put(b, id, r) == [k \in (DOMAIN b) \cup {id} |-> IF k = id THEN r ELSE b[k]]

Remove(b, id) == [k \in (DOMAIN b) \ {id} |-> b[k]]

\* The keys of a bucket in cursor order.
Keys(b) == SelectSeq(KeyOrder, LAMBDA k : k \in DOMAIN b)

\* A codec that loses the payload.
GobDropsPayload(r) ==
  IF "Payload" \in DOMAIN r THEN [r EXCEPT !.Payload = "nil"] ELSE r

\* gob omits a zero-length byte slice, so an empty payload decodes as nil.
GobRoundTrip(r) ==
  IF "Payload" \in DOMAIN r
    THEN [r EXCEPT !.Payload = IF @ = "empty" THEN "nil" ELSE @]
    ELSE r

(***************************************************************************)
(* storm: Save, DeleteStruct, Find, One on one bucket of a DB that is      *)
(* opened or not.                                                          *)
(***************************************************************************)
\* A Save that rewrites the bucket with the saved record alone.
StormSaveAlone(opened, b, v) ==
  IF v.ID = "" THEN [err |-> ErrZeroID, b |-> b]
  ELSE IF ~opened THEN [err |-> ErrDatabaseNotOpen, b |-> b]
  ELSE [err |-> NoErr, b |-> Put(EmptyBucket, v.ID, GobRoundTrip(v))]

StormSave(opened, b, v) ==
  IF v.ID = "" THEN [err |-> ErrZeroID, b |-> b]
  ELSE IF ~opened THEN [err |-> ErrDatabaseNotOpen, b |-> b]
  ELSE [err |-> NoErr, b |-> Put(b, v.ID, GobRoundTrip(v))]

StormDeleteStruct(opened, b, id) ==
  IF ~opened THEN [err |-> ErrDatabaseNotOpen, b |-> b]
  ELSE IF id \notin DOMAIN b THEN [err |-> ErrNotFound, b |-> b]
  ELSE [err |-> NoErr, b |-> Remove(b, id)]

\* A Find that does not filter by the field's value.
StormFindAll(opened, b, kind) ==
  IF ~opened THEN [err |-> ErrDatabaseNotOpen, v |-> <<>>]
  ELSE LET ks == Keys(b)
           v == [i \in 1..Len(ks) |-> b[ks[i]]]
       IN  IF Len(ks) = 0 THEN [err |-> ErrNotFound, v |-> <<>>]
           ELSE [err |-> NoErr, v |-> v]

StormFind(opened, b, kind) ==
  IF ~opened THEN [err |-> ErrDatabaseNotOpen, v |-> <<>>]
  ELSE LET ks == SelectSeq(Keys(b), LAMBDA k : b[k].T = kind)
           v == [i \in 1..Len(ks) |-> b[ks[i]]]
       IN  IF Len(ks) = 0 THEN [err |-> ErrNotFound, v |-> <<>>]
           ELSE [err |-> NoErr, v |-> v]

StormOne(opened, b, id) ==
  IF ~opened THEN [err |-> ErrDatabaseNotOpen, v |-> ZeroServerInfo]
  ELSE IF id \notin DOMAIN b THEN [err |-> ErrNotFound, v |-> ZeroServerInfo]
  ELSE [err |-> NoErr, v |-> b[id]]

(***************************************************************************)
(* The Store.                                                              *)
(***************************************************************************)
\* Some DB instance holds the exclusive lock on the file at path p, given the
\* Stores' db pointers d and the leaked DBs l.
LockHeldIn(d, l, p) == p \in l \/ \E g \in Handles : d[g] = "open" /\ path[g] = p

\* Some DB instance holds the exclusive lock on the file of Store h.
LockHeld(h) == LockHeldIn(db, leaked, path[h])

Opened(h) == db[h] = "open"

Return(op, h, arg, err, out) ==
  [op |-> op, h |-> h, arg |-> arg, err |-> err, out |-> out]

\* A New that keeps the path "." as it is.
NewPathEmptyOnly(p) == IF p = "" THEN defaultPath ELSE p

\* New(path, opts): the path of the Store.
NewPath(p) == IF p = "" \/ p = "." THEN defaultPath ELSE p

\* New(path, opts): the lock timeout of the Store; opts is <<>> for nil and
\* <<t>> for &bbolt.Options{Timeout: t}.
New(opts) == IF opts = <<>> THEN defaultTimeout ELSE opts[1]

Init ==
  /\ sub = EmptyBucket /\ cl = EmptyBucket /\ msg = EmptyBucket /\ srv = EmptyBucket
  /\ db = [h \in Handles |-> "nil"]
  /\ path = [h \in Handles |-> NewPath("")]
  /\ leaked = {}
  /\ inflightTTL = [h \in Handles |-> 0]
  /\ timeout = [h \in Handles |-> New(<<>>)]
  /\ pc = [h \in Handles |-> IF h = 1 THEN "idle" ELSE "none"]
  /\ ret = Return("New", 1, <<>>, NoErr, <<>>)
  /\ gor = [g \in Goroutines |-> [pc |-> "idle", m |-> <<>>]]
  /\ issued = {}

Open(h) ==
  /\ pc[h] = "idle"
  /\ IF ~LockHeld(h)
       THEN /\ db' = [db EXCEPT ![h] = "open"]
            /\ ret' = Return("Open", h, <<>>, NoErr, <<>>)
            /\ UNCHANGED <<leaked, pc>>
       ELSE IF timeout[h] # 0
         THEN /\ db' = [db EXCEPT ![h] = "nil"]
              /\ leaked' = IF db[h] = "open" THEN leaked \cup {path[h]} ELSE leaked
              /\ ret' = Return("Open", h, <<>>, ErrTimeout, <<>>)
              /\ UNCHANGED pc
         ELSE /\ pc' = [pc EXCEPT ![h] = "blocked"]
              /\ ret' = Return("OpenWait", h, <<>>, NoErr, <<>>)
              /\ UNCHANGED <<db, leaked>>
  /\ UNCHANGED <<file, cfg, conc>>

\* A Store waiting for the lock without a timeout gets it once it is free.
OpenAcquire(h) ==
  /\ pc[h] = "blocked"
  /\ ~LockHeld(h)
  /\ db' = [db EXCEPT ![h] = "open"]
  /\ pc' = [pc EXCEPT ![h] = "idle"]
  /\ ret' = Return("Open", h, <<>>, NoErr, <<>>)
  /\ UNCHANGED <<file, leaked, cfg, conc>>

\* A Close that truncates the file when the DB is closed already.
CloseAgainTruncates(h) ==
  /\ pc[h] = "idle"
  /\ db[h] # "nil"
  /\ db' = [db EXCEPT ![h] = "closed"]
  /\ IF db[h] = "closed"
       THEN sub' = EmptyBucket /\ cl' = EmptyBucket /\ msg' = EmptyBucket
            /\ srv' = EmptyBucket
       ELSE UNCHANGED file
  /\ ret' = Return("Close", h, db[h], NoErr, <<>>)
  /\ UNCHANGED <<leaked, cfg, pc, conc>>

\* A Close that loses the messages written since the Open.
CloseLosesMessages(h) ==
  /\ pc[h] = "idle"
  /\ db[h] # "nil"
  /\ db' = [db EXCEPT ![h] = "closed"]
  /\ msg' = EmptyBucket
  /\ ret' = Return("Close", h, db[h], NoErr, <<>>)
  /\ UNCHANGED <<sub, cl, srv, leaked, cfg, pc, conc>>

Close(h) ==
  /\ pc[h] = "idle"
  /\ IF db[h] = "nil"
       THEN /\ pc' = [pc EXCEPT ![h] = "panic"]
            /\ ret' = Return("Close", h, db[h], "panic", <<>>)
            /\ UNCHANGED db
       ELSE /\ db' = [db EXCEPT ![h] = "closed"]
            /\ ret' = Return("Close", h, db[h], NoErr, <<>>)
            /\ UNCHANGED pc
  /\ UNCHANGED <<file, leaked, cfg, conc>>

\* The body shared by the five Write functions, on bucket b.
Write(h, b, v) ==
  IF db[h] = "nil" THEN [err |-> ErrDBNotOpen, b |-> b]
  ELSE StormSave(Opened(h), b, v)

\* The body shared by the four Delete functions, on bucket b.
Delete(h, b, id) ==
  IF db[h] = "nil" THEN [err |-> ErrDBNotOpen, b |-> b]
  ELSE StormDeleteStruct(Opened(h), b, id)

\* A read that hands storm's not-found error to its caller.
ReadNotFound(h, b, kind) ==
  IF db[h] = "nil" THEN [err |-> ErrDBNotOpen, v |-> <<>>]
  ELSE StormFind(Opened(h), b, kind)

\* The body shared by the four collection reads.
Read(h, b, kind) ==
  IF db[h] = "nil" THEN [err |-> ErrDBNotOpen, v |-> <<>>]
  ELSE LET r == StormFind(Opened(h), b, kind)
       IN  IF r.err # NoErr /\ r.err # ErrNotFound THEN r
           ELSE [err |-> NoErr, v |-> r.v]

WriteServerInfo(h, v) ==
  /\ pc[h] = "idle"
  /\ LET r == Write(h, srv, v)
     IN  srv' = r.b /\ ret' = Return("WriteServerInfo", h, v, r.err, <<>>)
  /\ UNCHANGED <<sub, cl, msg, db, leaked, cfg, conc, pc>>

WriteSubscription(h, v) ==
  /\ pc[h] = "idle"
  /\ LET r == Write(h, sub, v)
     IN  sub' = r.b /\ ret' = Return("WriteSubscription", h, v, r.err, <<>>)
  /\ UNCHANGED <<cl, msg, srv, db, leaked, cfg, conc, pc>>

WriteInflight(h, v) ==
  /\ pc[h] = "idle"
  /\ LET r == Write(h, msg, v)
     IN  msg' = r.b /\ ret' = Return("WriteInflight", h, v, r.err, <<>>)
  /\ UNCHANGED <<sub, cl, srv, db, leaked, cfg, conc, pc>>

WriteRetained(h, v) ==
  /\ pc[h] = "idle"
  /\ LET r == Write(h, msg, v)
     IN  msg' = r.b /\ ret' = Return("WriteRetained", h, v, r.err, <<>>)
  /\ UNCHANGED <<sub, cl, srv, db, leaked, cfg, conc, pc>>

WriteClient(h, v) ==
  /\ pc[h] = "idle"
  /\ LET r == Write(h, cl, v)
     IN  cl' = r.b /\ ret' = Return("WriteClient", h, v, r.err, <<>>)
  /\ UNCHANGED <<sub, msg, srv, db, leaked, cfg, conc, pc>>

DeleteSubscription(h, id) ==
  /\ pc[h] = "idle"
  /\ LET r == Delete(h, sub, id)
     IN  sub' = r.b /\ ret' = Return("DeleteSubscription", h, id, r.err, <<>>)
  /\ UNCHANGED <<cl, msg, srv, db, leaked, cfg, conc, pc>>

DeleteClient(h, id) ==
  /\ pc[h] = "idle"
  /\ LET r == Delete(h, cl, id)
     IN  cl' = r.b /\ ret' = Return("DeleteClient", h, id, r.err, <<>>)
  /\ UNCHANGED <<sub, msg, srv, db, leaked, cfg, conc, pc>>

DeleteInflight(h, id) ==
  /\ pc[h] = "idle"
  /\ LET r == Delete(h, msg, id)
     IN  msg' = r.b /\ ret' = Return("DeleteInflight", h, id, r.err, <<>>)
  /\ UNCHANGED <<sub, cl, srv, db, leaked, cfg, conc, pc>>

DeleteRetained(h, id) ==
  /\ pc[h] = "idle"
  /\ LET r == Delete(h, msg, id)
     IN  msg' = r.b /\ ret' = Return("DeleteRetained", h, id, r.err, <<>>)
  /\ UNCHANGED <<sub, cl, srv, db, leaked, cfg, conc, pc>>

ReadSubscriptions(h) ==
  /\ pc[h] = "idle"
  /\ LET r == Read(h, sub, KSubscription)
     IN  ret' = Return("ReadSubscriptions", h, <<>>, r.err, r.v)
  /\ UNCHANGED <<file, db, leaked, cfg, conc, pc>>

ReadClients(h) ==
  /\ pc[h] = "idle"
  /\ LET r == Read(h, cl, KClient)
     IN  ret' = Return("ReadClients", h, <<>>, r.err, r.v)
  /\ UNCHANGED <<file, db, leaked, cfg, conc, pc>>

ReadInflight(h) ==
  /\ pc[h] = "idle"
  /\ LET r == Read(h, msg, KInflight)
     IN  ret' = Return("ReadInflight", h, <<>>, r.err, r.v)
  /\ UNCHANGED <<file, db, leaked, cfg, conc, pc>>

ReadRetained(h) ==
  /\ pc[h] = "idle"
  /\ LET r == Read(h, msg, KRetained)
     IN  ret' = Return("ReadRetained", h, <<>>, r.err, r.v)
  /\ UNCHANGED <<file, db, leaked, cfg, conc, pc>>

\* A ReadServerInfo that hands storm's not-found error to its caller.
ServerInfoOfNotFound(h, b) ==
  IF db[h] = "nil" THEN [err |-> ErrDBNotOpen, v |-> ZeroServerInfo]
  ELSE StormOne(Opened(h), b, KServerInfo)

\* The body of ReadServerInfo, on bucket b.
ServerInfoOf(h, b) ==
  IF db[h] = "nil" THEN [err |-> ErrDBNotOpen, v |-> ZeroServerInfo]
  ELSE LET r == StormOne(Opened(h), b, KServerInfo)
       IN  IF r.err # NoErr /\ r.err # ErrNotFound THEN r
           ELSE [err |-> NoErr, v |-> r.v]

ReadServerInfo(h) ==
  /\ pc[h] = "idle"
  /\ LET r == ServerInfoOf(h, srv)
     IN  ret' = Return("ReadServerInfo", h, <<>>, r.err, <<r.v>>)
  /\ UNCHANGED <<file, db, leaked, cfg, conc, pc>>

\* A test that also takes the records created at the threshold.
ExpiredAtThreshold(m, expiry) == m.Created <= expiry \/ m.Created = 0

\* The test of the sweep's loop body.
Expired(m, expiry) == m.Created < expiry \/ m.Created = 0

\* ClearExpiredInflight runs its Find and each of its DeleteStruct calls as a
\* transaction of its own, so the calls of other goroutines take effect between
\* them: a call of it is a SweepCall, a SweepStep for each record the Find
\* returned, and a SweepReturn.  ret names the Find of a sweep that has not
\* returned "ClearExpiredInflightFind".
\* Goroutine g calls ClearExpiredInflight(expiry): the guard and the Find.
SweepCall(g, expiry) ==
  /\ gor[g].pc = "idle"
  /\ pc[1] = "idle"
  /\ LET r == StormFind(Opened(1), msg, KInflight)
     IN  IF db[1] = "nil"
           THEN /\ ret' = Return("ClearExpiredInflight", 1, expiry, ErrDBNotOpen, <<>>)
                /\ UNCHANGED gor
         ELSE IF r.err # NoErr /\ r.err # ErrNotFound
           THEN /\ ret' = Return("ClearExpiredInflight", 1, expiry, r.err, <<>>)
                /\ UNCHANGED gor
         ELSE /\ gor' = [gor EXCEPT ![g] =
                          [pc |-> "sweeping",
                           m |-> [v |-> r.v, i |-> 1, expiry |-> expiry]]]
              /\ ret' = Return("ClearExpiredInflightFind", 1, expiry, NoErr, <<>>)
  /\ UNCHANGED <<file, cfg, db, leaked, pc, issued>>

\* A loop body that goes on to the next record when the delete fails.
SweepStepSkipsFailure(g) ==
  /\ gor[g].pc = "sweeping"
  /\ gor[g].m.i <= Len(gor[g].m.v)
  /\ LET l == gor[g].m
         d == StormDeleteStruct(Opened(1), msg, l.v[l.i].ID)
     IN  /\ msg' = IF Expired(l.v[l.i], l.expiry) THEN d.b ELSE msg
         /\ gor' = [gor EXCEPT ![g].m.i = @ + 1]
         /\ UNCHANGED ret
  /\ UNCHANGED <<sub, cl, srv, cfg, db, leaked, pc, issued>>

\* One pass of g's loop body: the test and the DeleteStruct of record i.
SweepStep(g) ==
  /\ gor[g].pc = "sweeping"
  /\ gor[g].m.i <= Len(gor[g].m.v)
  /\ LET l == gor[g].m
         d == StormDeleteStruct(Opened(1), msg, l.v[l.i].ID)
     IN  IF Expired(l.v[l.i], l.expiry)
           THEN IF d.err # NoErr
             THEN /\ ret' = Return("ClearExpiredInflight", 1, l.expiry, d.err, <<>>)
                  /\ gor' = [gor EXCEPT ![g] = [pc |-> "idle", m |-> <<>>]]
                  /\ UNCHANGED msg
             ELSE /\ msg' = d.b
                  /\ gor' = [gor EXCEPT ![g].m.i = @ + 1]
                  /\ UNCHANGED ret
           ELSE /\ gor' = [gor EXCEPT ![g].m.i = @ + 1]
                /\ UNCHANGED <<msg, ret>>
  /\ UNCHANGED <<sub, cl, srv, cfg, db, leaked, pc, issued>>

\* The loop of g is over: ClearExpiredInflight returns nil.
SweepReturn(g) ==
  /\ gor[g].pc = "sweeping"
  /\ gor[g].m.i > Len(gor[g].m.v)
  /\ ret' = Return("ClearExpiredInflight", 1, gor[g].m.expiry, NoErr, <<>>)
  /\ gor' = [gor EXCEPT ![g] = [pc |-> "idle", m |-> <<>>]]
  /\ UNCHANGED <<file, cfg, db, leaked, pc, issued>>

SetInflightTTL(h, seconds) ==
  /\ pc[h] = "idle"
  /\ inflightTTL' = [inflightTTL EXCEPT ![h] = seconds]
  /\ ret' = Return("SetInflightTTL", h, seconds, NoErr, <<>>)
  /\ UNCHANGED <<file, path, db, leaked, timeout, pc, conc>>

\* One Store built with default options, used by one goroutine at a time.
Next ==
  \E h \in Handles :
    \/ Open(h)
    \/ Close(h)
    \/ \E v \in ServerInfoValues : WriteServerInfo(h, v)
    \/ \E v \in SubscriptionValues : WriteSubscription(h, v)
    \/ \E v \in MessageValues : WriteInflight(h, v)
    \/ \E v \in MessageValues : WriteRetained(h, v)
    \/ \E v \in ClientValues : WriteClient(h, v)
    \/ \E id \in {"a"} : DeleteSubscription(h, id)
    \/ \E id \in {"a"} : DeleteClient(h, id)
    \/ \E id \in IDs : DeleteInflight(h, id)
    \/ \E id \in IDs : DeleteRetained(h, id)
    \/ ReadSubscriptions(h)
    \/ ReadClients(h)
    \/ ReadInflight(h)
    \/ ReadRetained(h)
    \/ ReadServerInfo(h)

Spec == Init /\ [][Next]_vars

(***************************************************************************)
(* Two Stores on the same path, each built with nil options or with        *)
(* options whose Timeout is 0.                                             *)
(***************************************************************************)
InitLock ==
  /\ sub = EmptyBucket /\ cl = EmptyBucket /\ msg = EmptyBucket /\ srv = EmptyBucket
  /\ db = [h \in Handles |-> "nil"]
  /\ path = [h \in Handles |-> NewPath("")]
  /\ leaked = {}
  /\ inflightTTL = [h \in Handles |-> 0]
  /\ timeout \in [Handles -> {New(<<>>), New(<<0>>)}]
  /\ pc = [h \in Handles |-> "idle"]
  /\ ret = Return("New", 1, <<>>, NoErr, <<>>)
  /\ gor = [g \in Goroutines |-> [pc |-> "idle", m |-> <<>>]]
  /\ issued = {}

NextLock ==
  \E h \in Handles :
    \/ Open(h)
    \/ OpenAcquire(h)
    \/ Close(h)
    \/ \E v \in ClientValues : WriteClient(h, v)
    \/ \E id \in {"a"} : DeleteClient(h, id)
    \/ ReadClients(h)

SpecLock == InitLock /\ [][NextLock]_vars

(***************************************************************************)
(* Stores built by New from any path and options, opened and closed.  The  *)
(* Stores may be on different files, so the contents of a file are left    *)
(* out here.                                                               *)
(***************************************************************************)
\* The arguments passed to New.
Paths == {"", ".", "mochi.db", "data.db"}
OptsValues == {<<>>, <<0>>}

InitNew ==
  /\ sub = EmptyBucket /\ cl = EmptyBucket /\ msg = EmptyBucket /\ srv = EmptyBucket
  /\ path = [h \in Handles |-> ""]
  /\ db = [h \in Handles |-> "nil"]
  /\ leaked = {}
  /\ timeout = [h \in Handles |-> 0]
  /\ inflightTTL = [h \in Handles |-> 0]
  /\ pc = [h \in Handles |-> "none"]
  /\ ret = Return("none", 1, <<>>, NoErr, <<>>)
  /\ gor = [g \in Goroutines |-> [pc |-> "idle", m |-> <<>>]]
  /\ issued = {}

\* New(p, opts) builds Store h.
NewStore(h, p, opts) ==
  /\ pc[h] = "none"
  /\ pc' = [pc EXCEPT ![h] = "idle"]
  /\ path' = [path EXCEPT ![h] = NewPath(p)]
  /\ timeout' = [timeout EXCEPT ![h] = New(opts)]
  /\ ret' = Return("New", h, <<p, opts>>, NoErr, <<>>)
  /\ UNCHANGED <<file, db, leaked, inflightTTL, conc>>

NextNew ==
  \E h \in Handles :
    \/ \E p \in Paths, opts \in OptsValues : NewStore(h, p, opts)
    \/ Open(h)
    \/ OpenAcquire(h)
    \/ Close(h)

SpecNew == InitNew /\ [][NextNew]_vars

(***************************************************************************)
(* Goroutines calling WriteInflight on the open Store 1 at the same time.  *)
(* bbolt runs one read-write transaction at a time, so a Save takes effect *)
(* in one step, at some moment between its call and its return.            *)
(***************************************************************************)
\* The records the goroutines save.
SaveValues ==
  [ID : IDs, T : {KInflight}, Created : {1}, Payload : {"empty", "x"}]

InitSave ==
  /\ sub = EmptyBucket /\ cl = EmptyBucket /\ msg = EmptyBucket /\ srv = EmptyBucket
  /\ db = [h \in Handles |-> IF h = 1 THEN "open" ELSE "nil"]
  /\ path = [h \in Handles |-> NewPath("")]
  /\ leaked = {}
  /\ inflightTTL = [h \in Handles |-> 0]
  /\ timeout = [h \in Handles |-> New(<<>>)]
  /\ pc = [h \in Handles |-> IF h = 1 THEN "idle" ELSE "none"]
  /\ ret = Return("Open", 1, <<>>, NoErr, <<>>)
  /\ gor = [g \in Goroutines |-> [pc |-> "idle", m |-> <<>>]]
  /\ issued = {}

\* Goroutine g calls WriteInflight(v).
SaveCall(g, v) ==
  /\ gor[g].pc = "idle"
  /\ gor' = [gor EXCEPT ![g] = [pc |-> "saving", m |-> v]]
  /\ issued' = issued \cup {v}
  /\ UNCHANGED <<file, db, leaked, cfg, pc, ret>>

\* The transaction of g's Save runs, and WriteInflight returns.
SaveReturn(g) ==
  /\ gor[g].pc = "saving"
  /\ LET r == Write(1, msg, gor[g].m)
     IN  msg' = r.b /\ ret' = Return("WriteInflight", 1, gor[g].m, r.err, <<>>)
  /\ gor' = [gor EXCEPT ![g] = [pc |-> "idle", m |-> <<>>]]
  /\ UNCHANGED <<sub, cl, srv, db, leaked, cfg, pc, issued>>

NextSave ==
  \E g \in Goroutines :
    \/ \E v \in SaveValues : SaveCall(g, v)
    \/ SaveReturn(g)

SpecSave == InitSave /\ [][NextSave]_vars

(***************************************************************************)
(* Goroutines calling ClearExpiredInflight on the open Store 1 while       *)
(* others write, delete and read.   The Find and each DeleteStruct of a    *)
(* sweep are transactions of their own, so other calls take effect         *)
(* between them.                                                           *)
(***************************************************************************)
\* The thresholds passed to ClearExpiredInflight: from below every creation
\* time but 0, through each creation time, to above every creation time.
Thresholds == 0..(MaxCreated + 1)

\* The seconds passed to SetInflightTTL.
TTLValues == 0..MaxCreated

\* The records written while sweeps run.
SweepValues ==
  [ID : IDs, T : {KInflight}, Created : 0..MaxCreated, Payload : {"x"}]
  \cup [ID : IDs, T : {KRetained}, Created : {0}, Payload : {"x"}]

NextSweep ==
  \/ \E g \in Goroutines :
       \/ \E expiry \in Thresholds : SweepCall(g, expiry)
       \/ SweepStep(g)
       \/ SweepReturn(g)
  \/ \E v \in {w \in SweepValues : w.T = KInflight} : WriteInflight(1, v)
  \/ \E v \in {w \in SweepValues : w.T = KRetained} : WriteRetained(1, v)
  \/ \E id \in IDs : DeleteInflight(1, id)
  \/ ReadInflight(1)
  \/ ReadRetained(1)

SpecSweep == InitSave /\ [][NextSweep]_vars

(***************************************************************************)
(* Goroutines calling ClearExpiredInflight on the open Store 1 while       *)
(* others set its inflight TTL and write messages of both kinds.           *)
(***************************************************************************)
NextTTL ==
  \/ \E g \in Goroutines :
       \/ \E expiry \in Thresholds : SweepCall(g, expiry)
       \/ SweepStep(g)
       \/ SweepReturn(g)
  \/ \E seconds \in TTLValues : SetInflightTTL(1, seconds)
  \/ \E v \in {w \in SweepValues : w.T = KInflight} : WriteInflight(1, v)
  \/ \E v \in {w \in SweepValues : w.T = KRetained} : WriteRetained(1, v)
  \/ ReadRetained(1)

SpecTTL == InitSave /\ [][NextTTL]_vars

(***************************************************************************)
(* Properties of the store used by one goroutine at a time (Spec).         *)
(***************************************************************************)
\* The bytes a payload holds: nil and empty hold none.
Bytes(p) == IF p = "x" THEN <<120>> ELSE <<>>

\* Two records are equal field by field, a payload by the bytes it holds.
SameRecord(r, s) ==
  /\ DOMAIN r = DOMAIN s
  /\ \A f \in DOMAIN r :
       IF f = "Payload" THEN Bytes(r[f]) = Bytes(s[f]) ELSE r[f] = s[f]

\* The records of sequence v that equal r.
Matches(v, r) == {i \in DOMAIN v : SameRecord(v[i], r)}

\* The records of sequence v stored under id.
WithID(v, id) == {i \in DOMAIN v : v[i].ID = id}

\* The step is a call of op by a Store whose DB is open.
CallOnOpen(op) == ret'.op = op /\ Opened(ret'.h)

\* The step is a call of op that returned no error.
Succeeded(op) == ret'.op = op /\ ret'.err = NoErr

\* The argument of the step's call, and its Store.
arg == ret'.arg
self == ret'.h

\* C2: a Delete of any kind on an open store with an id that is not present
\* returns no error, and the id is still absent afterwards.
C2_DeleteAbsentSucceeds ==
  [][/\ (CallOnOpen("DeleteSubscription") /\ arg \notin DOMAIN sub)
          => (ret'.err = NoErr /\ arg \notin DOMAIN sub')
     /\ (CallOnOpen("DeleteClient") /\ arg \notin DOMAIN cl)
          => (ret'.err = NoErr /\ arg \notin DOMAIN cl')
     /\ (CallOnOpen("DeleteInflight") /\ arg \notin DOMAIN msg)
          => (ret'.err = NoErr /\ arg \notin DOMAIN msg')
     /\ (CallOnOpen("DeleteRetained") /\ arg \notin DOMAIN msg)
          => (ret'.err = NoErr /\ arg \notin DOMAIN msg')]_vars

\* The calls of the store other than Open and Close.
StoreCalls ==
  {"WriteServerInfo", "WriteSubscription", "WriteInflight", "WriteRetained",
   "WriteClient", "DeleteSubscription", "DeleteClient", "DeleteInflight",
   "DeleteRetained", "ReadSubscriptions", "ReadClients", "ReadInflight",
   "ReadRetained", "ReadServerInfo", "ClearExpiredInflight"}

\* C3: every Write, Delete, Read and ClearExpiredInflight call on a Store
\* that was never opened, or was closed, returns ErrDBNotOpen and leaves the
\* file unchanged.
C3_NotOpenReturnsErrDBNotOpen ==
  [][(ret'.op \in StoreCalls /\ ~Opened(self)) =>
       (ret'.err = ErrDBNotOpen /\ file' = file)]_vars

\* The Retained and the Inflight records of a Message bucket, by ID.
RetainedOf(b) == {id \in DOMAIN b : b[id].T = KRetained}
InflightOf(b) == {id \in DOMAIN b : b[id].T = KInflight}

\* C4: DeleteInflight(id) never removes a Retained record and
\* DeleteRetained(id) never removes an Inflight record.
C4_DeleteScopedByKind ==
  [][/\ (ret'.op = "DeleteInflight" /\ DeleteInflight(self, arg))
          => RetainedOf(msg') = RetainedOf(msg)
     /\ (ret'.op = "DeleteRetained" /\ DeleteRetained(self, arg))
          => InflightOf(msg') = InflightOf(msg)]_vars

\* The read result r is no error and holds exactly one record equal to v.
ReadHasOne(r, v) == r.err = NoErr /\ Cardinality(Matches(r.v, v)) = 1

\* C5: after a successful Save of a record R on an open store, the read for
\* R's kind returns no error and holds exactly one record equal to R.
C5_SaveThenReadHasOne ==
  [][/\ (Succeeded("WriteInflight") /\ WriteInflight(self, arg))
          => ReadHasOne(Read(self, msg', arg.T), arg)
     /\ (Succeeded("WriteRetained") /\ WriteRetained(self, arg))
          => ReadHasOne(Read(self, msg', arg.T), arg)
     /\ (Succeeded("WriteClient") /\ WriteClient(self, arg))
          => ReadHasOne(Read(self, cl', KClient), arg)
     /\ (Succeeded("WriteSubscription") /\ WriteSubscription(self, arg))
          => ReadHasOne(Read(self, sub', KSubscription), arg)
     /\ (Succeeded("WriteServerInfo") /\ WriteServerInfo(self, arg))
          => LET r == ServerInfoOf(self, srv')
             IN  r.err = NoErr /\ SameRecord(r.v, arg)]_vars

\* A payload-carrying Inflight record was saved next to another record.
C5_Witness ==
  /\ ret.op = "WriteInflight" /\ ret.err = NoErr /\ ret.arg.Payload = "x"
  /\ ret.arg.T = KInflight
  /\ Cardinality(DOMAIN msg) = 2

\* From read old to read new, a Save of v added at most one record, and replaced
\* the record under v's ID, if there was one, by v alone.
Upserted(old, new, v) ==
  /\ Len(new.v) <= Len(old.v) + 1
  /\ WithID(old.v, v.ID) # {} =>
       /\ Len(new.v) = Len(old.v)
       /\ Cardinality(WithID(new.v, v.ID)) = 1
       /\ WithID(new.v, v.ID) = Matches(new.v, v)

\* C6: a successful Save under an ID that already holds a record of the same
\* kind leaves exactly one record under that ID in the kind's read, equal to
\* the record just saved; and no Save makes a kind's read grow by more than
\* one record.
C6_UpsertNoDuplicate ==
  [][/\ (Succeeded("WriteInflight") /\ WriteInflight(self, arg))
          => Upserted(Read(self, msg, arg.T), Read(self, msg', arg.T), arg)
     /\ (Succeeded("WriteRetained") /\ WriteRetained(self, arg))
          => Upserted(Read(self, msg, arg.T), Read(self, msg', arg.T), arg)
     /\ (Succeeded("WriteClient") /\ WriteClient(self, arg))
          => Upserted(Read(self, cl, KClient), Read(self, cl', KClient), arg)
     /\ (Succeeded("WriteSubscription") /\ WriteSubscription(self, arg))
          => Upserted(Read(self, sub, KSubscription),
                      Read(self, sub', KSubscription), arg)
     /\ (Succeeded("WriteServerInfo") /\ WriteServerInfo(self, arg))
          => /\ Cardinality(DOMAIN srv') <= Cardinality(DOMAIN srv) + 1
             /\ arg.ID \in DOMAIN srv =>
                  /\ DOMAIN srv' = DOMAIN srv
                  /\ SameRecord(ServerInfoOf(self, srv').v, arg)]_vars

\* A record was saved over a record of the same kind and ID with another
\* payload and creation time.
C6_Witness ==
  /\ ret.op = "WriteInflight" /\ ret.err = NoErr /\ ret.arg.T = KInflight
  /\ ret.arg.Payload = "empty" /\ ret.arg.Created = 0
  /\ Cardinality(DOMAIN msg) = 2

\* C7: ReadRetained returns no record whose discriminator is Inflight and
\* ReadInflight returns none whose discriminator is Retained.
C7_ReadsSeparateKinds ==
  /\ ret.op = "ReadRetained" => \A i \in DOMAIN ret.out : ret.out[i].T # KInflight
  /\ ret.op = "ReadInflight" => \A i \in DOMAIN ret.out : ret.out[i].T # KRetained

\* ReadRetained returned a record while the bucket also held an Inflight one.
C7_Witness ==
  /\ ret.op = "ReadRetained" /\ Len(ret.out) = 1
  /\ InflightOf(msg) # {} /\ RetainedOf(msg) # {}

\* What the collection reads and ReadServerInfo return from an opened DB over
\* the file.
Contents ==
  <<StormFind(TRUE, sub, KSubscription).v, StormFind(TRUE, cl, KClient).v,
    StormFind(TRUE, msg, KInflight).v, StormFind(TRUE, msg, KRetained).v,
    StormOne(TRUE, srv, KServerInfo).v>>

\* C9: Close and a following Open leave what every kind's read returns as it
\* was before the Close.
C9_CloseOpenKeepsContents ==
  [][(ret'.op \in {"Close", "Open", "OpenWait"}
        /\ (Close(self) \/ Open(self) \/ OpenAcquire(self)))
       => Contents' = Contents]_vars

\* The Store was opened again over a file that holds records of every kind.
C9_Witness ==
  /\ ret.op = "Open" /\ ret.err = NoErr
  /\ Contents[1] # <<>> /\ Contents[2] # <<>> /\ Contents[3] # <<>>
  /\ Contents[4] # <<>> /\ Contents[5] # ZeroServerInfo

\* C11: no operation of the store panics, whether the Store was never opened,
\* its Open failed, or it was closed already.
C11_NoOperationPanics == \A h \in Handles : pc[h] # "panic"

\* What every kind's read returns from Store h.
ReadsOf(h) ==
  <<Read(h, sub, KSubscription), Read(h, cl, KClient), Read(h, msg, KInflight),
    Read(h, msg, KRetained), ServerInfoOf(h, srv)>>

\* C12: a Close of a Store whose DB is closed already leaves the file as it
\* was, the Store stays closed and leaves the file as it is, and an Open that
\* follows makes every kind's read return what the file held at the first
\* Close.
C12_DoubleCloseKeepsContents ==
  [][/\ (ret'.op = "Close" /\ db[self] = "closed" /\ Close(self))
          => (file' = file /\ db'[self] = "closed" /\ pc'[self] = "idle")
     /\ (db[self] = "closed" /\ ret'.op # "Open") => file' = file
     /\ \A h \in Handles :
          (ret'.op = "Open" /\ db[h] = "closed" /\ Succeeded("Open") /\ Open(h))
            => /\ file' = file
               /\ \A k \in 1..5 : /\ ReadsOf(h)'[k].err = NoErr
                                  /\ ReadsOf(h)'[k].v = Contents[k]]_vars

\* Close was called on a closed Store whose file holds records of every kind.
C12_Witness ==
  /\ ret.op = "Close" /\ ret.arg = "closed" /\ ret.err = NoErr
  /\ Contents[1] # <<>> /\ Contents[2] # <<>> /\ Contents[3] # <<>>
  /\ Contents[4] # <<>> /\ Contents[5] # ZeroServerInfo

\* C13: ReadServerInfo on an open store without a ServerInfo row returns the
\* zero value and no error, and no ReadServerInfo returns the not-found error.
C13_ReadServerInfoEmpty ==
  ret.op = "ReadServerInfo" =>
    /\ ret.err # ErrNotFound
    /\ (Opened(ret.h) /\ KServerInfo \notin DOMAIN srv)
         => (ret.err = NoErr /\ ret.out = <<ZeroServerInfo>>)

\* ReadServerInfo returned from an open store that holds records of the other
\* kinds and no ServerInfo row.
C13_Witness ==
  /\ ret.op = "ReadServerInfo" /\ Opened(ret.h) /\ srv = EmptyBucket
  /\ ret.out = <<ZeroServerInfo>> /\ ret.err = NoErr
  /\ cl # EmptyBucket /\ msg # EmptyBucket

\* The collection reads, with the bucket and the kind each one scans.
CollectionReads ==
  {<<"ReadSubscriptions", sub, KSubscription>>, <<"ReadClients", cl, KClient>>,
   <<"ReadInflight", msg, KInflight>>, <<"ReadRetained", msg, KRetained>>}

\* C14: a collection read on an open store that holds no record of its kind
\* returns an empty sequence and no error, whatever else its bucket holds, and
\* no collection read returns the not-found error.
C14_ReadEmptyKind ==
  \A r \in CollectionReads :
    ret.op = r[1] =>
      /\ ret.err # ErrNotFound
      /\ (Opened(ret.h) /\ \A id \in DOMAIN r[2] : r[2][id].T # r[3])
           => (ret.err = NoErr /\ ret.out = <<>>)

\* ReadInflight returned from an open store whose Message bucket holds
\* Retained records only.
C14_Witness ==
  /\ ret.op = "ReadInflight" /\ Opened(ret.h) /\ ret.err = NoErr
  /\ ret.out = <<>> /\ RetainedOf(msg) # {} /\ InflightOf(msg) = {}

\* C19: WriteInflight(M) leaves what ReadRetained returns as it was, and
\* WriteRetained(M) leaves what ReadInflight returns as it was, whatever the ID
\* of M.
C19_SaveKeepsOtherKind ==
  [][\A h \in Handles :
       /\ (ret'.op = "WriteInflight" /\ arg.T = KInflight /\ WriteInflight(h, arg))
            => ReadsOf(h)'[4] = ReadsOf(h)[4]
       /\ (ret'.op = "WriteRetained" /\ arg.T = KRetained /\ WriteRetained(h, arg))
            => ReadsOf(h)'[3] = ReadsOf(h)[3]]_vars

(***************************************************************************)
(* Properties of goroutines saving at the same time (SpecSave).            *)
(***************************************************************************)
\* Every Save that was called has returned.
AllReturned == \A g \in Goroutines : gor[g].pc = "idle"

IssuedIDs == {v.ID : v \in issued}

\* C8: once all the concurrent Save calls have returned, the read of the kind
\* holds exactly one record for each ID a Save was called with, no other
\* record, and each record equals a value some Save was called with.
C8_ConcurrentSavesOnePerID ==
  AllReturned =>
    LET r == Read(1, msg, KInflight)
    IN  /\ r.err = NoErr
        /\ Len(r.v) = Cardinality(IssuedIDs)
        /\ \A id \in IssuedIDs : Cardinality(WithID(r.v, id)) = 1
        /\ \A i \in DOMAIN r.v : \E v \in issued : SameRecord(r.v[i], v)

\* Saves of every value, two per ID, have all returned.
C8_Witness ==
  /\ AllReturned /\ issued = SaveValues
  /\ Len(Read(1, msg, KInflight).v) = Cardinality(IDs)

(***************************************************************************)
(* Properties of two Stores on one path (SpecLock).                        *)
(***************************************************************************)
\* The step is an Open by a Store while another Store holds the file open.
SecondOpen ==
  /\ ret'.op \in {"Open", "OpenWait"}
  /\ Open(self)
  /\ \E g \in Handles \ {self} : Opened(g)

\* The Open of the step returned an error and left the Store that holds the
\* file, and the file, as they were.
RefusedSecondOpen ==
  /\ ret'.op = "Open" /\ ret'.err # NoErr /\ pc'[self] = "idle"
  /\ \A g \in Handles \ {self} : db'[g] = db[g]
  /\ file' = file

\* C10: a second Open on a path another Store holds open returns an
\* error, leaves the first Store usable and the file unchanged.
C10_SecondOpenReturnsError ==
  [][SecondOpen => RefusedSecondOpen]_vars

(***************************************************************************)
(* Properties of New (SpecNew).                                            *)
(***************************************************************************)
\* C16: New sets the path "mochi.db" for the paths "" and "." and keeps any
\* other path; without options it sets the lock timeout 250ms; the timeout of
\* a Store changes in New only; and an Open by a Store whose timeout is not 0
\* returns.
C16_NewDefaults ==
  [][/\ ret'.op = "New" =>
          /\ path'[self] = (IF arg[1] \in {"", "."} THEN "mochi.db" ELSE arg[1])
          /\ arg[2] = <<>> => timeout'[self] = 250
     /\ \A h \in Handles :
          timeout'[h] # timeout[h] => (ret'.op = "New" /\ self = h)
     /\ \A h \in Handles :
          (timeout[h] # 0 /\ Open(h)) => (ret'.op = "Open" /\ pc'[h] = "idle")]_vars

\* New(".", nil) built a Store on the path another Store holds open.
C16_Witness ==
  /\ ret.op = "New" /\ ret.arg = <<".", <<>>>>
  /\ timeout[ret.h] = defaultTimeout
  /\ \E g \in Handles \ {ret.h} : Opened(g) /\ path[g] = path[ret.h]

(***************************************************************************)
(* Properties of sweeps run next to other calls (SpecSweep).               *)
(***************************************************************************)
\* A message is stale for threshold t.
Stale(m, t) == m.Created < t \/ m.Created = 0

\* The record goroutine g's sweep is at, and its threshold.
At(g) == gor[g].m.v[gor[g].m.i]
Threshold(g) == gor[g].m.expiry

\* Goroutine g's sweep is at a record that was stale when it was scanned.
AtStale(g) ==
  /\ gor[g].pc = "sweeping"
  /\ gor[g].m.i <= Len(gor[g].m.v)
  /\ Stale(At(g), Threshold(g))

\* The delete of the record g's sweep is at fails.
DeleteFails(g) ==
  AtStale(g) /\ StormDeleteStruct(Opened(1), msg, At(g).ID).err # NoErr

\* Goroutine g's sweep has run alone so far: no other call has returned or
\* started since its Find, and no other sweep is under way.
Alone(g) ==
  /\ gor[g].pc = "sweeping"
  /\ ret.op = "ClearExpiredInflightFind"
  /\ \A h \in Goroutines \ {g} : gor[h].pc = "idle"

\* The records of g's scan that were not stale for its threshold, by ID.
KeptOf(g) ==
  {gor[g].m.v[i].ID : i \in {j \in DOMAIN gor[g].m.v :
                                ~Stale(gor[g].m.v[j], Threshold(g))}}

\* C1: a ClearExpiredInflight(t) on an open store that runs with no other call
\* between its Find and its return does not fail, returns no error, has
\* removed every Inflight record with Created < t or Created = 0 and has kept,
\* unchanged, every Inflight record with Created >= t and Created # 0.
C1_SweepRemovesExactlyExpired ==
  [][\A g \in Goroutines :
       /\ (Alone(g) /\ SweepStep(g)) => gor'[g].pc = "sweeping"
       /\ (Alone(g) /\ SweepReturn(g)) =>
            /\ ret'.op = "ClearExpiredInflight" /\ ret'.err = NoErr
            /\ InflightOf(msg') = KeptOf(g)
            /\ \A i \in DOMAIN gor[g].m.v :
                 LET m == gor[g].m.v[i]
                 IN  IF m.Created < Threshold(g) \/ m.Created = 0
                       THEN m.ID \notin DOMAIN msg'
                       ELSE m.ID \in DOMAIN msg' /\ msg'[m.ID] = m]_vars

\* A sweep with threshold 1 that ran alone is at its return: of the two
\* records it scanned it has removed the one created at 0 and kept the one
\* created at 1, the threshold.
C1_Witness ==
  \E g \in Goroutines :
    /\ Alone(g) /\ Threshold(g) = 1
    /\ \E id \in InflightOf(msg) : msg[id].Created = Threshold(g)
    /\ Len(gor[g].m.v) = 2 /\ gor[g].m.i = 3
    /\ Cardinality(KeptOf(g)) = 1
    /\ InflightOf(msg) = KeptOf(g)

\* C15: when a delete of the sweep fails, the sweep ends there and returns the
\* delete's error, and the file is as the sweep's earlier deletes left it; a
\* delete of the sweep that does not fail removes its record and the sweep
\* goes on; and a sweep that ran alone and returns leaves no Inflight record
\* that is stale for its threshold.
C15_SweepAbortsOnFailure ==
  [][\A g \in Goroutines :
       /\ (DeleteFails(g) /\ SweepStep(g)) =>
            /\ ret'.op = "ClearExpiredInflight"
            /\ ret'.err = StormDeleteStruct(Opened(1), msg, At(g).ID).err
            /\ gor'[g].pc = "idle"
            /\ file' = file
       /\ (AtStale(g) /\ ~DeleteFails(g) /\ SweepStep(g)) =>
            /\ msg' = Remove(msg, At(g).ID)
            /\ gor'[g].pc = "sweeping" /\ gor'[g].m.i = gor[g].m.i + 1
       /\ (Alone(g) /\ SweepReturn(g)) =>
            /\ ret'.err = NoErr
            /\ \A id \in InflightOf(msg') : ~Stale(msg'[id], Threshold(g))]_vars

\* A sweep has returned the not-found error of a delete while the open store
\* still holds an Inflight record that is stale for its threshold.
C15_Witness ==
  /\ ret.op = "ClearExpiredInflight" /\ ret.err = ErrNotFound /\ Opened(1)
  /\ \E id \in InflightOf(msg) : Stale(msg[id], ret.arg)

\* C17: a sweep with threshold t never deletes a record that, when it is
\* deleted, is a Retained record or an Inflight record with Created >= t and
\* Created # 0.
C17_SweepDeletesOnlyStale ==
  [][\A g \in Goroutines :
       (AtStale(g) /\ SweepStep(g)) =>
         \A id \in (DOMAIN msg) \ (DOMAIN msg') :
           msg[id].T = KInflight /\ Stale(msg[id], Threshold(g))]_vars

\* C18: when the stale record a sweep is at has been removed since the scan, the
\* sweep goes on to the next record without returning an error.
C18_SweepToleratesRemoval ==
  [][\A g \in Goroutines :
       (AtStale(g) /\ Opened(1) /\ At(g).ID \notin DOMAIN msg /\ SweepStep(g)) =>
         /\ gor'[g].pc = "sweeping"
         /\ gor'[g].m.i = gor[g].m.i + 1
         /\ ret' = ret]_vars

\* C20: no step of ClearExpiredInflight, whether the sweep returns an error or
\* not, changes what ReadSubscriptions, ReadClients, ReadRetained and
\* ReadServerInfo return, and what a step removes is, whatever the Store's
\* inflight TTL, an Inflight record that is stale for the threshold.
C20_SweepChangesInflightOnly ==
  [][\A g \in Goroutines :
       (\/ \E expiry \in Thresholds : SweepCall(g, expiry)
        \/ SweepStep(g)
        \/ SweepReturn(g)) =>
         /\ \A k \in {1, 2, 4, 5} : ReadsOf(1)'[k] = ReadsOf(1)[k]
         /\ \A id \in (DOMAIN msg) \ (DOMAIN msg') :
              msg[id].T = KInflight /\ AtStale(g) /\ id = At(g).ID]_vars

====
